---------------------------- MODULE Spec2Model ----------------------------
(***************************************************************************)
(* SkellySim ParaView glue: the setup script utils/init_paraview.py and    *)
(* the two RequestData scripts utils/paraview_utils/fiber_reader.py and    *)
(* body_reader.py, run by the host once per pipeline update of a source.   *)
(*                                                                         *)
(* Python values are modelled as follows.  A dict is a TLA+ record whose   *)
(* DOMAIN is the set of keys present (a missing key raises KeyError).  A   *)
(* list is a sequence (1-based here, 0-based in the source).  A time step  *)
(* is a double; it is modelled as an integer number of halves, so that     *)
(* int(time) has something to truncate.  Coordinates are integers that     *)
(* name the buffer entry they were read from.                              *)
(***************************************************************************)
EXTENDS Integers, Sequences, FiniteSets, TLC

VARIABLES
    pv,         \* the ParaView session the setup script acts on
    fhs,        \* self.fhs / self.fpos: which trajectory file is open
    h_phase,    \* "new", "updating" or "updated": the host's pipeline update
    h_req,      \* the output-information object of the current update
    h_pending,  \* sources the current update still has to execute
    h_loads,    \* load_frame calls made during the current update
    h_sources,  \* the sources the current update was started for
    f_pc, f_time, f_frame, f_pts, f_lines, f_pl, f_offset, f_k, f_n, f_i,
    f_out, f_fault,
    f_before,   \* the Fibers output as the running callback found it
    b_pc, b_time, b_frame, b_mb, b_offset, b_k, b_out, b_fault,
    b_before    \* the Bodies output as the running callback found it

hvars == <<h_phase, h_req, h_pending, h_loads, h_sources>>
fvars == <<f_pc, f_time, f_frame, f_pts, f_lines, f_pl, f_offset, f_k, f_n,
           f_i, f_out, f_fault, f_before>>
bvars == <<b_pc, b_time, b_frame, b_mb, b_offset, b_k, b_out, b_fault,
           b_before>>
vars == <<pv, fhs, hvars, fvars, bvars>>

\* ------------------------------------------------------------- bounds
MaxFibers == 2      \* fiber records per frame
MaxNodes == 2       \* n_nodes_ of a fiber record
MaxBodies == 2      \* body records per frame
MaxShort == 1       \* entries a coordinate buffer may lack
MaxExtra == 1       \* entries a coordinate buffer may have in surplus
NFrames == 2        \* frames of the trajectory file: indices 0 .. NFrames-1

None == "None"
NoFrame == [missing |-> TRUE]

Min(a, b) == IF a < b THEN a ELSE b

\* ------------------------------------------------------ python helpers
\* seq[lo:hi] of a Python list (0-based, hi exclusive): never raises, a
\* slice that runs past the end is cut at the end.
Slice(s, lo, hi) ==
    LET a == Min(lo, Len(s))
        b == Min(hi, Len(s))
    IN  IF b <= a THEN <<>> ELSE [j \in 1..(b - a) |-> s[a + j]]

\* seq[lo:]
SliceFrom(s, lo) == Slice(s, lo, Len(s))

\* int(time) of a double given in halves: truncation toward zero.
\* (IntFloor is the faulty variant that rounds down instead.)
IntFloor(t) == t \div 2
IntOf(t) == IF t >= 0 THEN t \div 2 ELSE -((-t) \div 2)

\* ------------------------------------------------- frames (load_frame)
\* The values stored in a trajectory name the place they come from: entry j
\* (0-based) of the buffer of the k-th fiber of frame idx.
Buf(idx, k, len) == [j \in 1..len |-> 1000 * idx + 100 * k + (j - 1)]
Pos(idx, k, len) == [j \in 1..len |-> 1000 * idx + 100 * k + 50 + (j - 1)]

\* Buffer lengths tried for a fiber of n nodes: 3 + 3 * n is the consistent
\* one; an inconsistent buffer lacks MaxShort entries or has MaxExtra too many.
BufLens(n) ==
    {l \in {3 + 3 * n - MaxShort, 3 + 3 * n, 3 + 3 * n + MaxExtra} : l >= 0}
PosLens == {l \in {6 - MaxShort, 6, 6 + MaxExtra} : l >= 0}

FiberRecords(idx, k) ==
    UNION {{[n_nodes_ |-> n, x_ |-> Buf(idx, k, l)] : l \in BufLens(n)}
           : n \in 0..MaxNodes}
    \cup {[x_ |-> Buf(idx, k, 3)]}
    \cup {[n_nodes_ |-> n] : n \in 0..MaxNodes}

BodyRecords(idx, k) ==
    {[position_ |-> Pos(idx, k, l)] : l \in PosLens}
    \cup {[orientation_ |-> Pos(idx, k, 3)]}

RECURSIVE FiberLists(_, _)
FiberLists(idx, m) ==
    IF m = 0 THEN {<<>>}
    ELSE {Append(s, r) : s \in FiberLists(idx, m - 1), r \in FiberRecords(idx, m)}

RECURSIVE BodyLists(_, _)
BodyLists(idx, m) ==
    IF m = 0 THEN {<<>>}
    ELSE {Append(s, r) : s \in BodyLists(idx, m - 1), r \in BodyRecords(idx, m)}

\* Frames of a file of arbitrary records: every list of fiber records with
\* no bodies, every list of body records with no fibers, and the two frames
\* that lack one of the collections.
RecordFrames(idx) ==
    {[fibers |-> fl, bodies |-> <<>>]
        : fl \in UNION {FiberLists(idx, m) : m \in 0..MaxFibers}}
    \cup {[fibers |-> <<>>, bodies |-> bl]
        : bl \in UNION {BodyLists(idx, m) : m \in 0..MaxBodies}}
    \cup {[fibers |-> <<>>], [bodies |-> <<>>]}

\* Frames of a consistent file: nf fibers (the k-th of k % (MaxNodes + 1)
\* nodes, with a buffer of exactly 3 + 3 * n entries) and nb bodies.
ConsistentFrame(idx, nf, nb) ==
    [fibers |-> [k \in 1..nf |->
                    [n_nodes_ |-> k % (MaxNodes + 1),
                     x_ |-> Buf(idx, k, 3 + 3 * (k % (MaxNodes + 1)))]],
     bodies |-> [k \in 1..nb |-> [position_ |-> Pos(idx, k, 6)]]]

ConsistentFrames(idx) ==
    {ConsistentFrame(idx, nf, nb) : nf \in 0..MaxFibers, nb \in 0..MaxBodies}

\* load_frame(fhs, fpos, index): the frames the call may return; the empty
\* set when the file has no frame of that index (the call raises).
LoadFrame(file, index) ==
    IF index \notin 0..(NFrames - 1) THEN {}
    ELSE IF file = "records" THEN RecordFrames(index)
    ELSE ConsistentFrames(index)

\* -------------------------------------------------------- vtk containers
Uninit == <<>>

\* vtkPoints.InsertPoint(id, x): sets point id, growing the array to id + 1
\* points when needed (the points in between stay uninitialised).
InsertPoint(pts, id, x) ==
    IF id < Len(pts) THEN [pts EXCEPT ![id + 1] = x]
    ELSE pts \o [j \in 1..(id - Len(pts)) |-> Uninit] \o <<x>>

\* vtkCellArray.InsertNextCell(npts): opens a new cell declared to hold npts
\* ids.  vtkCellArray.InsertCellPoint(id): appends id to the cell last opened.
InsertNextCell(lines, npts) == Append(lines, [npts |-> npts, ids |-> <<>>])
InsertCellPoint(lines, id) ==
    [lines EXCEPT ![Len(lines)].ids = Append(@, id)]

NullBlock == [null |-> TRUE]

\* vtkMultiBlockDataSet.SetBlock(idx, obj): sets block idx, growing the
\* number of blocks to idx + 1 when needed (the blocks in between are NULL).
SetBlock(mb, idx, obj) ==
    IF idx < Len(mb) THEN [mb EXCEPT ![idx + 1] = obj]
    ELSE mb \o [j \in 1..(idx - Len(mb)) |-> NullBlock] \o <<obj>>

EmptyPolyData == [points |-> <<>>, lines |-> <<>>]
EmptyMultiBlock == <<>>

\* ------------------------------------------- init_paraview.py (setup)
\* The session: the next statement of the script, the proxies created so
\* far (in creation order), the active source, the property values set, the
\* proxies shown, the display colours set, and the calls made.
PvInit ==
    [pc |-> 1, proxies |-> <<>>, active |-> None, props |-> {},
     shown |-> {}, display |-> <<>>, calls |-> <<>>]

LastStatement == 9

\* ProgrammableSource(...): a new source, which becomes the active source.
ProgrammableSource(st, guiName, outType, script) ==
    [st EXCEPT
        !.proxies = Append(@, [name |-> guiName, kind |-> "ProgrammableSource",
                               input |-> None, outType |-> outType,
                               script |-> script]),
        !.active = guiName,
        !.calls = Append(@, <<"ProgrammableSource", guiName>>)]

\* Tube(input) / Smooth(input): a new filter on input, which becomes the
\* active source.
Filter(st, kind, input) ==
    [st EXCEPT
        !.proxies = Append(@, [name |-> kind, kind |-> kind, input |-> input,
                               outType |-> None, script |-> None]),
        !.active = kind,
        !.calls = Append(@, <<kind, input>>)]

Show(st, proxy) ==
    [st EXCEPT !.shown = @ \cup {proxy},
               !.calls = Append(@, <<"Show", proxy>>)]

\* SetDisplayProperties(DiffuseColor=...) with no proxy argument acts on the
\* active source.
SetDisplayProperties(st, colour) ==
    [st EXCEPT !.display = Append(@, [proxy |-> st.active, DiffuseColor |-> colour]),
               !.calls = Append(@, <<"SetDisplayProperties", st.active>>)]

CreateFibers(st) ==
    ProgrammableSource(st, "Fibers", "vtkPolyData", "fiber_reader.py")
\* faulty variant: the tube is given no input
CreateTubeOnNothing(st) == Filter(st, "Tube", None)
CreateTube(st) == Filter(st, "Tube", "Fibers")
\* Radius = 0.025 (in thousandths), Capping = 1, NumberofSides = 10
SetTubeProperties(st) ==
    [st EXCEPT !.props = @ \cup {<<"Tube", "Radius", 25>>,
                                 <<"Tube", "Capping", 1>>,
                                 <<"Tube", "NumberofSides", 10>>}]
ShowTube(st) == Show(st, "Tube")
ColourTube(st) == SetDisplayProperties(st, <<0, 255, 127>>)
CreateBodies(st) ==
    ProgrammableSource(st, "Bodies", "vtkMultiblockDataSet", "body_reader.py")
\* faulty variant: the smoothing filter is wired to the fibers
CreateSmoothOnFibers(st) == Filter(st, "Smooth", "Fibers")
CreateSmooth(st) == Filter(st, "Smooth", "Bodies")
ShowSmooth(st) == Show(st, "Smooth")
ColourSmooth(st) == SetDisplayProperties(st, <<143, 255, 246>>)

\* One statement of the script.
ScriptStep(st) ==
    LET done ==
         CASE st.pc = 1 -> CreateFibers(st)
           [] st.pc = 2 -> CreateTube(st)
           [] st.pc = 3 -> SetTubeProperties(st)
           [] st.pc = 4 -> ShowTube(st)
           [] st.pc = 5 -> ColourTube(st)
           [] st.pc = 6 -> CreateBodies(st)
           [] st.pc = 7 -> CreateSmooth(st)
           [] st.pc = 8 -> ShowSmooth(st)
           [] st.pc = 9 -> ColourSmooth(st)
    IN  [done EXCEPT !.pc = st.pc + 1]

RECURSIVE RunScript(_)
RunScript(st) == IF st.pc > LastStatement THEN st ELSE RunScript(ScriptStep(st))

\* The user hides a proxy in the host's pipeline browser.
Hide(st, proxy) == [st EXCEPT !.shown = @ \ {proxy}]

\* The sources whose data the host's render demands: the inputs of the
\* proxies shown.
Demanded(st) ==
    {st.proxies[j].input : j \in {i \in 1..Len(st.proxies) : st.proxies[i].name \in st.shown}}

\* ------------------------------------------------------------- the host
\* Time steps the host may request, in halves: -1/2 .. NFrames + 1/2.
Times == (-1)..(2 * NFrames + 1)

Requests ==
    {[has |-> FALSE, time |-> 0]} \cup {[has |-> TRUE, time |-> t] : t \in Times}

CallbacksIdle == f_pc = "idle" /\ b_pc = "idle"

\* Lines 4-9 of both readers: the requested time step, 0 when the
\* output-information object has no UPDATE_TIME_STEP.
RequestedTime(outInfo) == IF outInfo.has THEN outInfo.time ELSE 0

\* Line 11 of both readers: the index passed to load_frame.
\* (FrameIndexFloor is the faulty variant.)
FrameIndexFloor(time) == IntFloor(time)
FrameIndex(time) == IntOf(time)

\* ------------------------------------------------------ fiber_reader.py
\* line 23: low = 3 + i * 3  (NodeLowOverlap: faulty variant, stride 1)
NodeLowOverlap(i) == 3 + i
NodeLow(i) == 3 + i * 3

\* line 25: fib["x_"][low : low + 3]  (NodeCoordsToEnd: faulty variant,
\* an open-ended slice)
NodeCoordsToEnd(x, i) == SliceFrom(x, NodeLow(i))
NodeCoords(x, i) == Slice(x, NodeLow(i), NodeLow(i) + 3)

\* line 26: offset += 1  (KeepOffset: faulty variant, no increment)
KeepOffset(offset) == offset
NextOffset(offset) == offset + 1

\* line 22: range(n_nodes), as the number of iterations  (NodesOfBuffer:
\* faulty variant, the count is taken from the buffer length)
NodesOfBuffer(fib) ==
    IF "x_" \in DOMAIN fib /\ Len(fib.x_) >= 3 THEN (Len(fib.x_) - 3) \div 3 ELSE 0
NodeCount(fib) == fib.n_nodes_

\* lines 13-14: the containers the callback fills  (ReusePoints: faulty
\* variant, the points of the output are filled again)
ReusePoints(out) == out.points
FreshPoints(out) == <<>>
FreshLines(out) == <<>>

\* The exception leaves the script: nothing after it runs.
F_Raise(kind) ==
    /\ f_pc' = "raised"
    /\ f_fault' = kind
    /\ UNCHANGED <<f_out, f_before, f_time, f_frame, f_pl, f_offset, f_k, f_n, f_i>>

\* lines 4-9: the host executes the Fibers source; the script reads the
\* output-information object.
F_Begin ==
    /\ CallbacksIdle
    /\ "Fibers" \in h_pending
    /\ h_pending' = h_pending \ {"Fibers"}
    /\ f_pc' = "load"
    /\ f_time' = RequestedTime(h_req)
    /\ f_fault' = None
    /\ f_before' = f_out
    /\ UNCHANGED <<pv, fhs, h_phase, h_req, h_loads, h_sources, bvars,
                   f_frame, f_pts, f_lines, f_pl, f_offset, f_k, f_n, f_i, f_out>>

\* lines 11-15: load_frame, then the fresh containers and offset = 0.
F_Load ==
    /\ f_pc = "load"
    /\ h_loads' = Append(h_loads, [source |-> "Fibers", index |-> FrameIndex(f_time)])
    /\ IF LoadFrame(fhs, FrameIndex(f_time)) = {}
       THEN /\ F_Raise("load_frame")
            /\ UNCHANGED <<f_pts, f_lines>>
       ELSE /\ \E fr \in LoadFrame(fhs, FrameIndex(f_time)) : f_frame' = fr
            /\ f_pts' = FreshPoints(f_out)
            /\ f_lines' = FreshLines(f_out)
            /\ f_offset' = 0
            /\ f_k' = 1
            /\ f_pc' = "outer"
            /\ UNCHANGED <<f_time, f_pl, f_n, f_i, f_out, f_fault, f_before>>
    /\ UNCHANGED <<pv, fhs, h_phase, h_req, h_pending, h_sources, bvars>>

\* lines 16-20: the next fiber of frame["fibers"].
F_NextFiber ==
    /\ f_pc = "outer"
    /\ IF "fibers" \notin DOMAIN f_frame
       THEN /\ F_Raise("KeyError")
            /\ UNCHANGED <<f_pts, f_lines>>
       ELSE /\ f_k <= Len(f_frame.fibers)
            /\ LET fib == f_frame.fibers[f_k] IN
               IF "n_nodes_" \notin DOMAIN fib
               THEN /\ F_Raise("KeyError")
                    /\ UNCHANGED <<f_pts, f_lines>>
               ELSE /\ f_n' = NodeCount(fib)
                    /\ f_lines' = InsertNextCell(f_lines, NodeCount(fib))
                    /\ f_pl' = NodeCount(fib)
                    /\ f_i' = 0
                    /\ IF NodeCount(fib) > 0
                       THEN f_pc' = "inner" /\ f_k' = f_k
                       ELSE f_pc' = "outer" /\ f_k' = f_k + 1
                    /\ UNCHANGED <<f_time, f_frame, f_pts, f_offset, f_out, f_fault,
                                   f_before>>
    /\ UNCHANGED <<pv, fhs, hvars, bvars>>

\* lines 22-26: node f_i of the current fiber.
F_Node ==
    /\ f_pc = "inner"
    /\ LET fib == f_frame.fibers[f_k] IN
       /\ f_lines' = InsertCellPoint(f_lines, f_offset)
       /\ IF "x_" \notin DOMAIN fib
          THEN F_Raise("KeyError") /\ UNCHANGED f_pts
          ELSE IF Len(NodeCoords(fib.x_, f_i)) # 3
          THEN F_Raise("TypeError") /\ UNCHANGED f_pts
          ELSE /\ f_pts' = InsertPoint(f_pts, f_offset, NodeCoords(fib.x_, f_i))
               /\ f_offset' = NextOffset(f_offset)
               /\ IF f_i + 1 < f_n
                  THEN f_i' = f_i + 1 /\ f_k' = f_k /\ f_pc' = "inner"
                  ELSE f_i' = f_i /\ f_k' = f_k + 1 /\ f_pc' = "outer"
               /\ UNCHANGED <<f_time, f_frame, f_pl, f_n, f_out, f_fault, f_before>>
    /\ UNCHANGED <<pv, fhs, hvars, bvars>>

\* lines 28-30: the loop is over; the containers go to the output.
\* (PublishPointsOnly: faulty variant, SetLines is forgotten.)
PublishPointsOnly(out, pts, lines) == [points |-> pts, lines |-> out.lines]
PublishFibers(out, pts, lines) == [points |-> pts, lines |-> lines]

F_Publish ==
    /\ f_pc = "outer"
    /\ "fibers" \in DOMAIN f_frame
    /\ f_k > Len(f_frame.fibers)
    /\ f_out' = PublishFibers(f_out, f_pts, f_lines)
    /\ f_pc' = "done"
    /\ UNCHANGED <<f_time, f_frame, f_pts, f_lines, f_pl, f_offset, f_k, f_n, f_i,
                   f_fault, f_before>>
    /\ UNCHANGED <<pv, fhs, hvars, bvars>>

\* The script is over (normally or by an exception): its locals are gone.
F_Return ==
    /\ f_pc \in {"done", "raised"}
    /\ f_pc' = "idle"
    /\ f_time' = 0 /\ f_frame' = NoFrame /\ f_pts' = <<>> /\ f_lines' = <<>>
    /\ f_pl' = 0 /\ f_offset' = 0 /\ f_k' = 0 /\ f_n' = 0 /\ f_i' = 0
    /\ f_before' = f_out
    /\ UNCHANGED <<f_out, f_fault>>
    /\ UNCHANGED <<pv, fhs, hvars, bvars>>

\* ------------------------------------------------------- body_reader.py
\* line 16: body["position_"][3:]
BodyPosition(position_) == SliceFrom(position_, 3)

\* lines 17-22: the sphere source and its output. Radius 0.5 is <<1, 2>>.
ThetaResolution == 32
PhiResolution == 32
Sphere(position) ==
    [radius |-> <<1, 2>>, center |-> position,
     theta |-> ThetaResolution, phi |-> PhiResolution]

\* line 24: offset += 1  (KeepBlock: faulty variant, no increment)
KeepBlock(offset) == offset
NextBlock(offset) == offset + 1

\* line 13: the multiblock the callback fills
FreshMultiBlock(out) == EmptyMultiBlock

B_Raise(kind) ==
    /\ b_pc' = "raised"
    /\ b_fault' = kind
    /\ UNCHANGED <<b_out, b_before, b_time, b_frame, b_mb, b_offset, b_k>>

\* lines 4-9: the host executes the Bodies source.
B_Begin ==
    /\ CallbacksIdle
    /\ "Bodies" \in h_pending
    /\ h_pending' = h_pending \ {"Bodies"}
    /\ b_pc' = "load"
    /\ b_time' = RequestedTime(h_req)
    /\ b_fault' = None
    /\ b_before' = b_out
    /\ UNCHANGED <<pv, fhs, h_phase, h_req, h_loads, h_sources, fvars,
                   b_frame, b_mb, b_offset, b_k, b_out>>

\* lines 11-14: load_frame, then the fresh multiblock and offset = 0.
B_Load ==
    /\ b_pc = "load"
    /\ h_loads' = Append(h_loads, [source |-> "Bodies", index |-> FrameIndex(b_time)])
    /\ IF LoadFrame(fhs, FrameIndex(b_time)) = {}
       THEN B_Raise("load_frame")
       ELSE /\ \E fr \in LoadFrame(fhs, FrameIndex(b_time)) : b_frame' = fr
            /\ b_mb' = FreshMultiBlock(b_out)
            /\ b_offset' = 0
            /\ b_k' = 1
            /\ b_pc' = "loop"
            /\ UNCHANGED <<b_time, b_out, b_fault, b_before>>
    /\ UNCHANGED <<pv, fhs, h_phase, h_req, h_pending, h_sources, fvars>>

\* lines 15-24: the next body of frame["bodies"].
B_Body ==
    /\ b_pc = "loop"
    /\ IF "bodies" \notin DOMAIN b_frame
       THEN B_Raise("KeyError")
       ELSE /\ b_k <= Len(b_frame.bodies)
            /\ LET body == b_frame.bodies[b_k] IN
               IF "position_" \notin DOMAIN body
               THEN B_Raise("KeyError")
               ELSE IF Len(BodyPosition(body.position_)) # 3
               THEN B_Raise("TypeError")
               ELSE /\ b_mb' = SetBlock(b_mb, b_offset, Sphere(BodyPosition(body.position_)))
                    /\ b_offset' = NextBlock(b_offset)
                    /\ b_k' = b_k + 1
                    /\ UNCHANGED <<b_pc, b_time, b_frame, b_out, b_fault, b_before>>
    /\ UNCHANGED <<pv, fhs, hvars, fvars>>

\* line 26: self.GetOutput().ShallowCopy(mb)
ShallowCopy(out, mb) == mb

B_Publish ==
    /\ b_pc = "loop"
    /\ "bodies" \in DOMAIN b_frame
    /\ b_k > Len(b_frame.bodies)
    /\ b_out' = ShallowCopy(b_out, b_mb)
    /\ b_pc' = "done"
    /\ UNCHANGED <<b_time, b_frame, b_mb, b_offset, b_k, b_fault, b_before>>
    /\ UNCHANGED <<pv, fhs, hvars, fvars>>

B_Return ==
    /\ b_pc \in {"done", "raised"}
    /\ b_pc' = "idle"
    /\ b_time' = 0 /\ b_frame' = NoFrame /\ b_mb' = <<>>
    /\ b_offset' = 0 /\ b_k' = 0
    /\ b_before' = b_out
    /\ UNCHANGED <<b_out, b_fault>>
    /\ UNCHANGED <<pv, fhs, hvars, fvars>>

\* ------------------------------------------------ the script and the host
\* The next statement of init_paraview.py (the host is single-threaded: no
\* statement runs while a callback does).
Setup ==
    /\ pv.pc <= LastStatement
    /\ CallbacksIdle
    /\ h_phase # "updating"
    /\ pv' = ScriptStep(pv)
    /\ UNCHANGED <<fhs, hvars, fvars, bvars>>

\* The host starts a pipeline update for one requested time step: every
\* source whose data a shown proxy demands is to be executed.
H_Update ==
    /\ h_phase # "updating"
    /\ CallbacksIdle
    /\ Demanded(pv) # {}
    /\ \E req \in Requests : h_req' = req
    /\ h_pending' = Demanded(pv)
    /\ h_sources' = Demanded(pv)
    /\ h_loads' = <<>>
    /\ h_phase' = "updating"
    /\ UNCHANGED <<pv, fhs, fvars, bvars>>

\* The first pipeline update after the sources were constructed.
H_FirstUpdate ==
    /\ h_phase = "new"
    /\ H_Update

\* Every demanded source was executed: the update is over.
H_Finish ==
    /\ h_phase = "updating"
    /\ h_pending = {}
    /\ CallbacksIdle
    /\ h_phase' = "updated"
    /\ UNCHANGED <<pv, fhs, h_req, h_pending, h_loads, h_sources, fvars, bvars>>

\* ----------------------------------------------------- specifications
HostInit ==
    /\ h_phase = "new"
    /\ h_req = [has |-> FALSE, time |-> 0]
    /\ h_pending = {}
    /\ h_loads = <<>>
    /\ h_sources = {}

CallbackInit ==
    /\ f_pc = "idle" /\ f_time = 0 /\ f_frame = NoFrame /\ f_pts = <<>>
    /\ f_lines = <<>> /\ f_pl = 0 /\ f_offset = 0 /\ f_k = 0 /\ f_n = 0
    /\ f_i = 0 /\ f_out = EmptyPolyData /\ f_fault = None
    /\ f_before = EmptyPolyData /\ b_before = EmptyMultiBlock
    /\ b_pc = "idle" /\ b_time = 0 /\ b_frame = NoFrame /\ b_mb = <<>>
    /\ b_offset = 0 /\ b_k = 0 /\ b_out = EmptyMultiBlock /\ b_fault = None

\* The session from the start of the setup script on, over a consistent
\* trajectory file; the host updates the pipeline again and again.
Init ==
    /\ pv = PvInit
    /\ fhs = "consistent"
    /\ HostInit
    /\ CallbackInit

Next ==
    \/ Setup
    \/ H_Update
    \/ H_Finish
    \/ F_Begin \/ F_Load \/ F_NextFiber \/ F_Node \/ F_Publish \/ F_Return
    \/ B_Begin \/ B_Load \/ B_Body \/ B_Publish \/ B_Return

Spec == Init /\ [][Next]_vars

\* What an earlier update over a consistent file has left in the outputs.
EarlierPolyData ==
    [points |-> <<<<9103, 9104, 9105>>, <<9203, 9204, 9205>>>>,
     lines |-> <<[npts |-> 1, ids |-> <<0>>], [npts |-> 1, ids |-> <<1>>]>>]
EarlierMultiBlock ==
    <<[radius |-> <<1, 2>>, center |-> <<9153, 9154, 9155>>,
       theta |-> ThetaResolution, phi |-> PhiResolution],
      [radius |-> <<1, 2>>, center |-> <<9253, 9254, 9255>>,
       theta |-> ThetaResolution, phi |-> PhiResolution]>>

\* One execution of one callback on a file of arbitrary records: the setup
\* script has run, the user has hidden one of the two filters, the outputs
\* hold nothing or the frame of an earlier update, and the host makes one
\* pipeline update.
InitRecords ==
    /\ \E hidden \in {"Tube", "Smooth"} : pv = Hide(RunScript(PvInit), hidden)
    /\ fhs = "records"
    /\ HostInit
    /\ f_pc = "idle" /\ f_time = 0 /\ f_frame = NoFrame /\ f_pts = <<>>
    /\ f_lines = <<>> /\ f_pl = 0 /\ f_offset = 0 /\ f_k = 0 /\ f_n = 0
    /\ f_i = 0 /\ f_fault = None
    /\ b_pc = "idle" /\ b_time = 0 /\ b_frame = NoFrame /\ b_mb = <<>>
    /\ b_offset = 0 /\ b_k = 0 /\ b_fault = None
    /\ \E earlier \in BOOLEAN :
        /\ f_out = IF earlier THEN EarlierPolyData ELSE EmptyPolyData
        /\ b_out = IF earlier THEN EarlierMultiBlock ELSE EmptyMultiBlock
    /\ f_before = f_out /\ b_before = b_out

NextRecords ==
    \/ H_FirstUpdate
    \/ H_Finish
    \/ F_Begin \/ F_Load \/ F_NextFiber \/ F_Node \/ F_Publish \/ F_Return
    \/ B_Begin \/ B_Load \/ B_Body \/ B_Publish \/ B_Return

SpecRecords == InitRecords /\ [][NextRecords]_vars

\* ================================================================ claims
Range(s) == {s[j] : j \in DOMAIN s}

\* The number of nodes of the first k fibers of a list.
RECURSIVE SumNodes(_, _)
SumNodes(fibers, k) ==
    IF k = 0 THEN 0 ELSE SumNodes(fibers, k - 1) + fibers[k].n_nodes_

\* The fiber (1-based) that owns point p (1-based) of the concatenation.
RECURSIVE OwnerOf(_, _, _)
OwnerOf(fibers, p, k) ==
    IF p <= SumNodes(fibers, k) THEN k ELSE OwnerOf(fibers, p, k + 1)

\* The poly data a frame of well-formed fibers stands for: the node triples
\* of the fibers one after the other, one cell of consecutive ids per fiber.
ExpectedPolyData(frame) ==
    LET fibers == frame.fibers
        N == SumNodes(fibers, Len(fibers))
    IN  [points |-> [p \in 1..N |->
            LET k == OwnerOf(fibers, p, 1)
                i == p - SumNodes(fibers, k - 1) - 1
                x == fibers[k].x_
            IN  <<x[3 * i + 4], x[3 * i + 5], x[3 * i + 6]>>],
         lines |-> [k \in 1..Len(fibers) |->
            [npts |-> fibers[k].n_nodes_,
             ids |-> [i \in 1..fibers[k].n_nodes_ |->
                        SumNodes(fibers, k - 1) + i - 1]]]]

\* The multiblock a frame of well-formed bodies stands for.
ExpectedMultiBlock(frame) ==
    [k \in 1..Len(frame.bodies) |->
        LET p == frame.bodies[k].position_
        IN  [radius |-> <<1, 2>>, center |-> <<p[4], p[5], p[6]>>,
             theta |-> 32, phi |-> 32]]

\* C1: when the fiber callback completes, its output holds one line cell per
\* fiber record of the frame, in the frame's order (the points of the k-th
\* cell are entries of the k-th fiber's buffer), the k-th cell holding
\* exactly n_nodes_ point ids; a frame of no fibers gives no point and no
\* cell.
C1_OneCellPerFiber ==
    f_pc = "done" =>
        LET fibers == f_frame.fibers IN
        /\ Len(f_out.lines) = Len(fibers)
        /\ \A k \in 1..Len(fibers) :
            LET cell == f_out.lines[k] IN
            /\ cell.npts = fibers[k].n_nodes_
            /\ Len(cell.ids) = fibers[k].n_nodes_
            /\ \A j \in 1..Len(cell.ids) :
                /\ cell.ids[j] + 1 \in 1..Len(f_out.points)
                /\ Range(f_out.points[cell.ids[j] + 1]) \subseteq Range(fibers[k].x_)
        /\ (Len(fibers) = 0 => f_out = EmptyPolyData)

C1_Witness ==
    /\ f_pc = "done"
    /\ Len(f_frame.fibers) = 2
    /\ f_frame.fibers[1].n_nodes_ = 2
    /\ f_frame.fibers[2].n_nodes_ = 1
    /\ f_before = EarlierPolyData

\* C2: when the body callback completes, its output holds one block per body
\* record of the frame: block i is a sphere of radius 1/2 centred at the
\* entries of the i-th position_ from index 3 on; no block index is skipped
\* or written twice; a frame of no bodies gives no block.
C2_OneSpherePerBody ==
    b_pc = "done" =>
        LET bodies == b_frame.bodies IN
        /\ Len(b_out) = Len(bodies)
        /\ b_offset = Len(bodies)
        /\ \A i \in 1..Len(bodies) :
            LET p == bodies[i].position_ IN
            /\ b_out[i] # NullBlock
            /\ b_out[i].radius = <<1, 2>>
            /\ b_out[i].center = [j \in 1..(Len(p) - 3) |-> p[3 + j]]
        /\ (Len(bodies) = 0 => b_out = EmptyMultiBlock)

C2_Witness ==
    /\ b_pc = "done"
    /\ Len(b_frame.bodies) = 2
    /\ b_before = EarlierMultiBlock

\* C8: point ids are dense and never shared between fibers: at the start of
\* every inner iteration offset is the number of points inserted so far; on
\* completion the number of points is the sum of n_nodes_, the ids of the
\* k-th fiber are the consecutive run that starts at the sum of n_nodes_ of
\* the fibers before it, every id 0 .. N-1 is in exactly one cell exactly
\* once, and a fiber of no nodes gives an empty cell.
C8_DenseIds ==
    /\ f_pc = "inner" => f_offset = Len(f_pts)
    /\ f_pc = "done" =>
        LET fibers == f_frame.fibers
            N == SumNodes(fibers, Len(fibers))
        IN
        /\ Len(f_out.points) = N
        /\ \A k \in 1..Len(fibers) :
            /\ f_out.lines[k].ids =
                 [i \in 1..fibers[k].n_nodes_ |-> SumNodes(fibers, k - 1) + i - 1]
            /\ fibers[k].n_nodes_ = 0 => f_out.lines[k].ids = <<>>
        /\ \A id \in 0..(N - 1) :
            Cardinality({kj \in (1..Len(fibers)) \X (1..MaxNodes + 1) :
                            /\ kj[2] <= Len(f_out.lines[kj[1]].ids)
                            /\ f_out.lines[kj[1]].ids[kj[2]] = id}) = 1

C8_Witness ==
    /\ f_pc = "done"
    /\ Len(f_frame.fibers) = 2
    /\ f_frame.fibers[1].n_nodes_ = 0
    /\ f_frame.fibers[2].n_nodes_ = 2
    /\ f_out.lines[2].ids = <<0, 1>>

\* C9: the coordinates of node i of a fiber are the entries 3 + 3i, 4 + 3i,
\* 5 + 3i (0-based) of its buffer: the first three entries are never
\* emitted, no entry is used for two nodes, nodes come out in buffer order.
C9_NodeCoordinates ==
    f_pc = "done" =>
        LET fibers == f_frame.fibers IN
        /\ \A k \in 1..Len(fibers) : \A i \in 0..(fibers[k].n_nodes_ - 1) :
            LET id == f_out.lines[k].ids[i + 1]
                x == fibers[k].x_
            IN  f_out.points[id + 1] = <<x[3 * i + 4], x[3 * i + 5], x[3 * i + 6]>>
        /\ \A p \in 1..Len(f_out.points) : \A k \in 1..Len(fibers) :
            "x_" \in DOMAIN fibers[k] =>
                Range(f_out.points[p])
                    \cap {fibers[k].x_[j] : j \in (1..3) \cap DOMAIN fibers[k].x_} = {}
        /\ Cardinality(UNION {Range(f_out.points[p]) : p \in 1..Len(f_out.points)})
             = 3 * Len(f_out.points)

C9_Witness ==
    /\ f_pc = "done"
    /\ Len(f_frame.fibers) = 2
    /\ f_frame.fibers[1].n_nodes_ = 2
    /\ f_frame.fibers[2].n_nodes_ = 2
    /\ Len(f_out.points) = 4

\* The frame with every buffer cut to the 3 + 3 * n_nodes_ entries the node
\* count asks for.
Truncated(frame) ==
    [fibers |-> [k \in 1..Len(frame.fibers) |->
                    [n_nodes_ |-> frame.fibers[k].n_nodes_,
                     x_ |-> SubSeq(frame.fibers[k].x_, 1,
                                   3 + 3 * frame.fibers[k].n_nodes_)]]]

\* Every buffer has at least the entries its node count asks for, and one
\* has more.
HasSurplus(frame) ==
    /\ "fibers" \in DOMAIN frame
    /\ \A k \in 1..Len(frame.fibers) :
        /\ DOMAIN frame.fibers[k] = {"n_nodes_", "x_"}
        /\ Len(frame.fibers[k].x_) >= 3 + 3 * frame.fibers[k].n_nodes_
    /\ \E k \in 1..Len(frame.fibers) :
        Len(frame.fibers[k].x_) > 3 + 3 * frame.fibers[k].n_nodes_

\* C10: a buffer longer than 3 + 3 * n_nodes_ is not a fault: the callback
\* completes and publishes exactly n_nodes_ points for the fiber, what it
\* would publish with the surplus entries cut off.
C10_SurplusIgnored ==
    (f_pc \in {"done", "raised"} /\ HasSurplus(f_frame)) =>
        /\ f_pc = "done"
        /\ f_fault = None
        /\ \A k \in 1..Len(f_frame.fibers) :
            Len(f_out.lines[k].ids) = f_frame.fibers[k].n_nodes_
        /\ f_out = ExpectedPolyData(Truncated(f_frame))

C10_Witness ==
    /\ f_pc = "done"
    /\ Len(f_frame.fibers) = 2
    /\ f_frame.fibers[1].n_nodes_ = 1
    /\ Len(f_frame.fibers[1].x_) = 7
    /\ f_frame.fibers[2].n_nodes_ = 2
    /\ Len(f_frame.fibers[2].x_) = 10

\* A fiber record the claim calls malformed: a field is missing, or the
\* buffer is shorter than 3 + 3 * n_nodes_.
MalformedFiber(fib) ==
    \/ "n_nodes_" \notin DOMAIN fib
    \/ "x_" \notin DOMAIN fib
    \/ Len(fib.x_) < 3 + 3 * fib.n_nodes_

MalformedBody(body) == "position_" \notin DOMAIN body

\* A fiber record the loop cannot get through: no node count, or at least
\* one node and no buffer or a buffer shorter than 3 + 3 * n_nodes_.
UnreadableFiber(fib) ==
    \/ "n_nodes_" \notin DOMAIN fib
    \/ /\ fib.n_nodes_ > 0
       /\ \/ "x_" \notin DOMAIN fib
          \/ Len(fib.x_) < 3 + 3 * fib.n_nodes_

\* A body record the loop cannot get through: no position_, or one that
\* does not leave three entries from index 3 on.
UnreadableBody(body) ==
    \/ "position_" \notin DOMAIN body
    \/ Len(body.position_) # 6

\* C4 as stated: whenever load_frame fails or a record of the frame is
\* malformed, the callback ends with a fault and its output is as before.
C4_Original ==
    /\ (f_pc \in {"done", "raised"} /\
        (\/ f_frame = NoFrame
         \/ /\ "fibers" \in DOMAIN f_frame
            /\ \E k \in 1..Len(f_frame.fibers) : MalformedFiber(f_frame.fibers[k])))
        => (f_pc = "raised" /\ f_out = f_before)
    /\ (b_pc \in {"done", "raised"} /\
        (\/ b_frame = NoFrame
         \/ /\ "bodies" \in DOMAIN b_frame
            /\ \E k \in 1..Len(b_frame.bodies) : MalformedBody(b_frame.bodies[k])))
        => (b_pc = "raised" /\ b_out = b_before)

\* C4 (amended): a callback ends with a fault exactly when load_frame fails,
\* the frame lacks the collection, or the loop reaches a record it cannot
\* read (a fiber of no nodes is never read, so its buffer cannot fault); a
\* fault leaves the output as the callback found it, and so does every step
\* before the last: no partly built frame is published.
C4_FaultsPublishNothing ==
    /\ f_pc \in {"done", "raised"} =>
        (f_pc = "raised" <=>
            \/ f_frame = NoFrame
            \/ "fibers" \notin DOMAIN f_frame
            \/ \E k \in 1..Len(f_frame.fibers) : UnreadableFiber(f_frame.fibers[k]))
    /\ f_pc = "raised" => f_fault # None
    /\ f_pc \in {"load", "outer", "inner", "raised"} => f_out = f_before
    /\ b_pc \in {"done", "raised"} =>
        (b_pc = "raised" <=>
            \/ b_frame = NoFrame
            \/ "bodies" \notin DOMAIN b_frame
            \/ \E k \in 1..Len(b_frame.bodies) : UnreadableBody(b_frame.bodies[k]))
    /\ b_pc = "raised" => b_fault # None
    /\ b_pc \in {"load", "loop", "raised"} => b_out = b_before

\* A fault after part of the frame was built, over an output that held an
\* earlier frame.
C4_Witness ==
    /\ f_pc = "raised"
    /\ f_fault = "TypeError"
    /\ Len(f_pts) > 0
    /\ Len(f_lines) = 2
    /\ f_out = EarlierPolyData

\* int(t) of a time step t given in halves is q: q is t / 2 cut toward zero.
TruncatesTo(t, q) ==
    IF t >= 0 THEN 2 * q <= t /\ t < 2 * q + 2
    ELSE q <= 0 /\ 2 * (-q) <= -t /\ -t < 2 * (-q) + 2

IndexOfRequest(req, q) == IF req.has THEN TruncatesTo(req.time, q) ELSE q = 0

\* C3: in both callbacks the index passed to load_frame is the requested
\* time step cut to an integer, or 0 when there is no UPDATE_TIME_STEP;
\* load_frame is called with no other index, and the frame the callback
\* works on, and the output it publishes, are of that index.
C3_FrameIndex ==
    /\ \A j \in 1..Len(h_loads) : IndexOfRequest(h_req, h_loads[j].index)
    /\ f_pc \in {"outer", "inner", "done"} =>
        \E q \in 0..(NFrames - 1) :
            IndexOfRequest(h_req, q) /\ f_frame \in LoadFrame(fhs, q)
    /\ b_pc \in {"loop", "done"} =>
        \E q \in 0..(NFrames - 1) :
            IndexOfRequest(h_req, q) /\ b_frame \in LoadFrame(fhs, q)
    /\ f_pc = "done" =>
        \A p \in 1..Len(f_out.points) : \A c \in Range(f_out.points[p]) :
            IndexOfRequest(h_req, c \div 1000)
    /\ b_pc = "done" =>
        \A p \in 1..Len(b_out) : \A c \in Range(b_out[p].center) :
            IndexOfRequest(h_req, c \div 1000)

C3_Witness ==
    /\ b_pc = "done"
    /\ h_req.has /\ h_req.time = 3
    /\ Len(b_out) > 0
    /\ Len(h_loads) = 2

\* C5: what a callback publishes is the poly data or multiblock of the frame
\* this call loaded and nothing else, whatever the output held before: no
\* point, cell or block of an earlier frame is left in it.
C5_NoLeftovers ==
    /\ f_pc = "done" => f_out = ExpectedPolyData(f_frame)
    /\ b_pc = "done" => b_out = ExpectedMultiBlock(b_frame)

\* A frame of fewer fibers published over one of more fibers.
C5_Witness ==
    /\ f_pc = "done"
    /\ Len(f_before.lines) = 2
    /\ Len(f_out.lines) = 1
    /\ Len(b_out) = 1

\* C6 as stated: in one pipeline update of the two sources of the setup
\* script, load_frame is called exactly once.
C6_Original ==
    (h_phase = "updated" /\ h_sources = {"Fibers", "Bodies"}) => Len(h_loads) = 1

\* The sources in h_loads, with multiplicity.
LoadsBy(source) == Cardinality({j \in 1..Len(h_loads) : h_loads[j].source = source})

\* C6 (amended): in one pipeline update load_frame is called exactly once by
\* each source the update executes, so twice with the pipeline of the setup
\* script (once by Fibers, once by Bodies), both times with the same index.
C6_OncePerSource ==
    h_phase = "updated" =>
        /\ \A s \in {"Fibers", "Bodies"} : LoadsBy(s) = IF s \in h_sources THEN 1 ELSE 0
        /\ h_sources = Demanded(RunScript(PvInit)) =>
            /\ Len(h_loads) = 2
            /\ LoadsBy("Fibers") = 1 /\ LoadsBy("Bodies") = 1
            /\ h_loads[1].index = h_loads[2].index

C6_Witness ==
    /\ h_phase = "updated"
    /\ pv.pc > LastStatement
    /\ h_sources = {"Fibers", "Bodies"}
    /\ Len(h_loads) = 2
    /\ h_loads[1].index = 1

ExpectedCalls ==
    << <<"ProgrammableSource", "Fibers">>, <<"Tube", "Fibers">>,
       <<"Show", "Tube">>, <<"SetDisplayProperties", "Tube">>,
       <<"ProgrammableSource", "Bodies">>, <<"Smooth", "Bodies">>,
       <<"Show", "Smooth">>, <<"SetDisplayProperties", "Smooth">> >>

\* C7: the setup script creates two programmable sources and two filters in
\* this order: the Fibers source (vtkPolyData), a Tube on it, Show of the
\* tube and its colour, then the Bodies source (vtkMultiblockDataSet), a
\* Smooth on it, Show of it and its colour.  Each filter takes the source
\* created just before it, only the filters are shown, and each
\* SetDisplayProperties comes right after the Show of the proxy it colours.
C7_SetupOrder ==
    /\ Len(pv.calls) <= Len(ExpectedCalls)
    /\ \A j \in 1..Len(pv.calls) : pv.calls[j] = ExpectedCalls[j]
    /\ \A j \in 1..Len(pv.proxies) :
        LET p == pv.proxies[j] IN
        IF p.kind = "ProgrammableSource"
        THEN p.input = None /\ p.name \notin pv.shown
        ELSE j > 1 /\ p.input = pv.proxies[j - 1].name
                   /\ pv.proxies[j - 1].kind = "ProgrammableSource"
    /\ \A j \in 1..Len(pv.calls) :
        pv.calls[j][1] = "SetDisplayProperties" =>
            j > 1 /\ pv.calls[j - 1] = <<"Show", pv.calls[j][2]>>
    /\ \A j \in 1..Len(pv.display) : pv.display[j].proxy \in pv.shown
    /\ pv.pc > LastStatement =>
        /\ Len(pv.calls) = Len(ExpectedCalls)
        /\ [j \in 1..Len(pv.proxies) |-> <<pv.proxies[j].kind, pv.proxies[j].outType>>]
             = << <<"ProgrammableSource", "vtkPolyData">>, <<"Tube", None>>,
                  <<"ProgrammableSource", "vtkMultiblockDataSet">>, <<"Smooth", None>> >>
        /\ pv.shown = {"Tube", "Smooth"}
        /\ [j \in 1..Len(pv.display) |-> pv.display[j].proxy] = <<"Tube", "Smooth">>

C7_Witness ==
    /\ pv.pc > LastStatement
    /\ h_phase = "updated"
    /\ h_sources = {"Fibers", "Bodies"}

=============================================================================
